---- MODULE Spec2Model ----
(***************************************************************************)
(* Model of homework.py: a bot that polls the homework-review API and      *)
(* forwards status changes to a Telegram chat.                             *)
(*                                                                         *)
(* Python dicts are records with an explicit key set ("keys"); a field     *)
(* whose key is absent holds a fixed filler that the model never reads.    *)
(* Python strings built from templates are sequences of their parts, so    *)
(* that two renderings are equal exactly when template and arguments are.  *)
(* The Russian literals of the source are written in ASCII.                *)
(* The two report dicts live in a heap and the variables current_report    *)
(* and prev_report are references, as in the source.                       *)
(***************************************************************************)
EXTENDS Integers, Sequences, FiniteSets, TLC

(***************************************************************************)
(* Bounds of the model.                                                    *)
(***************************************************************************)
MaxCycles == 3
MaxHomeworks == 2

(***************************************************************************)
(* Program constants.                                                      *)
(***************************************************************************)
RETRY_TIME == 600
HTTP_OK == 200

\* HOMEWORK_STATUSES: the verdict per review status.
HOMEWORK_STATUSES ==
    [approved  |-> "Rabota proverena: revjueru vsjo ponravilos. Ura!",
     reviewing |-> "Rabota vzjata na proverku revjuerom.",
     rejected  |-> "Rabota proverena: u revjuera est zamechanija."]

(***************************************************************************)
(* Inputs: the environment, the API's answers, the clock.                  *)
(***************************************************************************)
None == "None"
StartTimes == {5000}
EnvValues == {None, "", "secret"}
Names == {"hw1", "hw2"}
Statuses == {"approved", "rejected", "bogus"}
Dates == {0, 1000}
HomeworkKeys == {"homework_name", "status"}
ResponseKeys == {"homeworks", "current_date"}

\* A homework record as the API may deliver it.
Homework ==
    {h \in [keys : SUBSET HomeworkKeys, homework_name : Names, status : Statuses] :
        /\ ("homework_name" \notin h.keys => h.homework_name = "hw1")
        /\ ("status" \notin h.keys => h.status = "approved")}

\* The records that follow the first one in a list.
TailHomework ==
    {[keys |-> HomeworkKeys, homework_name |-> "hw2", status |-> "rejected"]}

RECURSIVE HomeworkLists(_)
HomeworkLists(n) ==
    IF n = 0 THEN {<<>>}
    ELSE IF n = 1 THEN {<<>>} \cup {<<h>> : h \in Homework}
    ELSE LET shorter == HomeworkLists(n - 1)
         IN  shorter \cup {Append(l, t) : l \in {s \in shorter : Len(s) = n - 1},
                                           t \in TailHomework}

\* A parsed JSON body: a mapping, or something else (isdict = FALSE).
Responses ==
    {r \in [isdict : BOOLEAN, keys : SUBSET ResponseKeys, islist : BOOLEAN,
            homeworks : HomeworkLists(MaxHomeworks), current_date : Dates] :
        /\ (~r.isdict => r.keys = {})
        /\ ("homeworks" \notin r.keys => r.islist /\ r.homeworks = <<>>)
        /\ (~r.islist => r.homeworks = <<>>)
        /\ ("current_date" \notin r.keys => r.current_date = 0)}

NoResponse ==
    [isdict |-> FALSE, keys |-> {}, islist |-> TRUE, homeworks |-> <<>>,
     current_date |-> 0]

VARIABLES
    PRACTICUM_TOKEN, TELEGRAM_TOKEN, TELEGRAM_CHAT_ID,
    pc,                \* position in main()
    now,               \* time.time()
    current_timestamp, \* the cursor
    heap,              \* the dict objects
    current_report,    \* reference to the current report dict
    prev_report,       \* reference to the committed report dict
    response,          \* local variable response
    error,             \* the exception bound in the except clause
    message,           \* local variable message
    pending,           \* exception propagating while finally runs
    request,           \* from_date of the last request issued
    http,              \* history: what the HTTP layer answered in this cycle
    cycle,             \* history: number of the running cycle
    did,               \* history: steps performed in this cycle
    sent,              \* history: notifier calls of this cycle
    at_start,          \* history: cursor and reports when the cycle began
    same,              \* history: this cycle's response equals the last cycle's
    slept,             \* history: sleeps since the last fetch
    formatted,         \* history: arguments of this cycle's parse_status calls
    last_empty         \* history: current_date of the cycle before this one if
                       \* it got through with an empty list, else -1

vars == <<PRACTICUM_TOKEN, TELEGRAM_TOKEN, TELEGRAM_CHAT_ID, pc, now,
          current_timestamp, heap, current_report, prev_report, response,
          error, message, pending, request, http, cycle, did, sent,
          at_start, same, slept, formatted, last_empty>>

(***************************************************************************)
(* Strings.                                                                *)
(***************************************************************************)
\* 'Izmenilsja status proverki raboty "{homework_name}". {verdict}'
StatusMessage(homework_name, verdict) ==
    <<"Izmenilsja status proverki raboty '", homework_name, "'. ", verdict>>

\* Variant of NoHomeworkMessage that does not render the cursor.
NoHomeworkMessagePlain(timestamp) ==
    <<"Za period do nastojashhego momenta domashnih rabot net.">>

\* Variant of NoHomeworkMessage that renders the clock instead of the cursor.
NoHomeworkMessageClock(timestamp) ==
    <<"Za period ot ", ToString(now),
      " do nastojashhego momenta domashnih rabot net.">>

\* f'Za period ot {current_timestamp} do nastojashhego momenta domashnih rabot net.'
NoHomeworkMessage(timestamp) ==
    <<"Za period ot ", ToString(timestamp),
      " do nastojashhego momenta domashnih rabot net.">>

\* f'Sboj v rabote programmy: {error}'
Malfunction(err) == <<"Sboj v rabote programmy: ", err>>

\* An argument of send_message: a string or a dict object.
StrArg(s) == [type |-> "str", value |-> s]
DictArg(d) == [type |-> "dict", value |-> d]

(***************************************************************************)
(* The report dicts.                                                       *)
(***************************************************************************)
Refs == {"d1", "d2"}
EmptyReport == [name |-> "", output |-> <<>>]

\* Variant of copy that returns the object itself (prev_report = current_report).
copyAlias(h, r) == [ref |-> r, heap |-> h]

\* dict.copy(): a new object holding the same items. The object that the
\* assigned variable referred to before is unreachable, so its cell is reused.
copy(h, r) ==
    LET fresh == CHOOSE x \in Refs : x # r
    IN  [ref |-> fresh, heap |-> [h EXCEPT ![fresh] = h[r]]]

\* Variant of Differ that compares identity (current_report is not prev_report).
DifferIdentity(h, a, b) == a # b

\* current_report != prev_report: comparison of the items, not of identity.
Differ(h, a, b) == h[a] # h[b]

(***************************************************************************)
(* The functions of the module.                                            *)
(***************************************************************************)
Ok(v) == [raises |-> None, value |-> v]
Raise(e) == [raises |-> e, value |-> None]

Truthy(v) == v # None /\ v # ""

check_tokens == Truthy(PRACTICUM_TOKEN) /\ Truthy(TELEGRAM_TOKEN)
                /\ TELEGRAM_CHAT_ID # None

\* What the HTTP layer can answer to one request.
HttpResults ==
    {[raised |-> TRUE, status_code |-> 0, json |-> FALSE, body |-> NoResponse],
     [raised |-> FALSE, status_code |-> 503, json |-> FALSE, body |-> NoResponse],
     [raised |-> FALSE, status_code |-> HTTP_OK, json |-> FALSE, body |-> NoResponse]}
    \cup {[raised |-> FALSE, status_code |-> HTTP_OK, json |-> TRUE, body |-> r] :
            r \in Responses}

NoHttp == [raised |-> TRUE, status_code |-> 0, json |-> FALSE, body |-> NoResponse]

\* timestamp = current_timestamp or int(time.time())
from_date(timestamp, clock) == IF timestamp # 0 THEN timestamp ELSE clock

\* The except clause names WrongAPIResponseCodeError, which requests.get
\* never raises: an exception of requests.get propagates as it is.
get_api_answer(timestamp, clock, h) ==
    LET params == [from_date |-> from_date(timestamp, clock)]
        result ==
            IF h.raised THEN Raise("RequestException")
            ELSE IF h.status_code # HTTP_OK
                 THEN Raise("WrongAPIResponseCodeError")
            ELSE IF ~h.json THEN Raise("JSONDecodeError")
            ELSE Ok(h.body)
    IN  [raises |-> result.raises, value |-> result.value, params |-> params]

\* Variant of get_current_date that keeps the cursor it was given.
get_current_date_stale(r, default) == default

\* Variant of get_current_date without the default: response.get('current_date')
\* yields None, which the cursor then holds (falsy, rendered here as 0).
get_current_date_nodefault(r, default) ==
    IF "current_date" \in r.keys THEN r.current_date ELSE 0

\* response.get('current_date', default)
get_current_date(r, default) ==
    IF "current_date" \in r.keys THEN r.current_date ELSE default

\* Variant of check_response that does not test the type of homeworks.
check_response_nolist(r) ==
    IF ~r.isdict THEN Raise("TypeError")
    ELSE IF "homeworks" \notin r.keys THEN Raise("KeyError")
    ELSE IF "current_date" \notin r.keys THEN Raise("EmptyAPIResponseError")
    ELSE Ok(r.homeworks)

check_response(r) ==
    IF ~r.isdict THEN Raise("TypeError")
    ELSE IF "homeworks" \notin r.keys THEN Raise("KeyError")
    ELSE IF "current_date" \notin r.keys THEN Raise("EmptyAPIResponseError")
    ELSE IF ~r.islist THEN Raise("KeyError")
    ELSE Ok(r.homeworks)

\* Variant of first that takes the most recent record: new_homeworks[-1]
last(homeworks) == homeworks[Len(homeworks)]

\* new_homeworks[0]
first(homeworks) == homeworks[1]

\* Variant of parse_status that looks the verdict up with
\* HOMEWORK_STATUSES.get(homework_status) and does not reject a miss.
parse_status_unchecked(homework) ==
    IF "homework_name" \notin homework.keys THEN Raise("KeyError")
    ELSE IF "status" \notin homework.keys THEN Raise("KeyError")
    ELSE Ok(StatusMessage(homework.homework_name,
                          IF homework.status \in DOMAIN HOMEWORK_STATUSES
                          THEN HOMEWORK_STATUSES[homework.status] ELSE None))

parse_status(homework) ==
    IF "homework_name" \notin homework.keys THEN Raise("KeyError")
    ELSE IF "status" \notin homework.keys THEN Raise("KeyError")
    ELSE IF homework.status \notin DOMAIN HOMEWORK_STATUSES THEN Raise("ValueError")
    ELSE Ok(StatusMessage(homework.homework_name,
                          HOMEWORK_STATUSES[homework.status]))

\* send_message: bot.send_message delivers or raises TelegramError.
send_message(arg, delivered) ==
    IF delivered THEN Ok(arg) ELSE Raise("TelegramMessageError")

(***************************************************************************)
(* main()                                                                  *)
(***************************************************************************)
Snapshot == [cursor |-> current_timestamp,
             current |-> heap[current_report],
             prev |-> heap[prev_report]]

Init ==
    /\ PRACTICUM_TOKEN \in EnvValues
    /\ TELEGRAM_TOKEN \in EnvValues
    /\ TELEGRAM_CHAT_ID \in EnvValues
    /\ pc = "start"
    /\ now \in StartTimes
    /\ current_timestamp = 0
    /\ heap = [r \in Refs |-> EmptyReport]
    /\ current_report = "d1"
    /\ prev_report = "d1"
    /\ response = NoResponse
    /\ error = None
    /\ message = <<>>
    /\ pending = None
    /\ request = 0
    /\ http = NoHttp
    /\ cycle = 0
    /\ did = {}
    /\ sent = <<>>
    /\ at_start = [cursor |-> 0, current |-> EmptyReport, prev |-> EmptyReport]
    /\ same = FALSE
    /\ slept = 0
    /\ formatted = <<>>
    /\ last_empty = -1

env == <<PRACTICUM_TOKEN, TELEGRAM_TOKEN, TELEGRAM_CHAT_ID>>
history == <<http, cycle, did, sent, at_start, same, slept, formatted,
            last_empty>>

\* Lines 151-164: the credential check and the loop's initial state.
Start ==
    /\ pc = "start"
    /\ IF ~check_tokens
       THEN /\ pc' = "exit"
            /\ UNCHANGED <<current_timestamp, heap, current_report, prev_report>>
       ELSE LET c == copy([heap EXCEPT !["d1"] = EmptyReport], "d1")
            IN  /\ pc' = "fetch"
                /\ current_timestamp' = now
                /\ current_report' = "d1"
                /\ prev_report' = c.ref
                /\ heap' = c.heap
    /\ UNCHANGED <<env, now, response, error, message, pending, request, history>>

\* Line 168: response = get_api_answer(current_timestamp)
Fetch ==
    /\ pc = "fetch"
    /\ cycle < MaxCycles
    /\ \E h \in HttpResults :
         LET a == get_api_answer(current_timestamp, now, h)
         IN  /\ request' = a.params.from_date
             /\ http' = h
             /\ IF a.raises # None
                THEN /\ error' = a.raises
                     /\ pc' = "except"
                     /\ same' = FALSE
                     /\ UNCHANGED response
                ELSE /\ response' = a.value
                     /\ pc' = "advance"
                     /\ same' = ("advance" \in did /\ a.value = response)
                     /\ UNCHANGED error
    /\ cycle' = cycle + 1
    /\ did' = {"fetch"}
    /\ sent' = <<>>
    /\ at_start' = Snapshot
    /\ slept' = 0
    /\ formatted' = <<>>
    /\ last_empty' =
         IF "compare" \in did /\ response.homeworks = <<>>
         THEN response.current_date ELSE -1
    /\ UNCHANGED <<env, now, current_timestamp, heap, current_report,
                   prev_report, message, pending>>

\* Line 171: current_timestamp = response.get('current_date', current_timestamp)
Advance ==
    /\ pc = "advance"
    /\ did' = did \cup {"advance"}
    /\ IF ~response.isdict
       THEN /\ error' = "AttributeError"
            /\ pc' = "except"
            /\ UNCHANGED current_timestamp
       ELSE /\ current_timestamp' = get_current_date(response, current_timestamp)
            /\ pc' = "check"
            /\ UNCHANGED error
    /\ UNCHANGED <<env, now, heap, current_report, prev_report, response,
                   message, pending, request, http, cycle, sent, at_start, same,
                   slept,
                   formatted, last_empty>>

\* Lines 172-180: validation of the response and the new current report.
\* Line 174 stores the name before line 175 calls parse_status.
CheckAndFormat ==
    /\ pc = "check"
    /\ LET checked == check_response(response)
           new_homeworks == checked.value
       IN  IF checked.raises # None
           THEN /\ error' = checked.raises
                /\ pc' = "except"
                /\ did' = did \cup {"validate"}
                /\ UNCHANGED <<heap, formatted>>
           ELSE IF new_homeworks # <<>>
           THEN IF "homework_name" \notin first(new_homeworks).keys
                THEN /\ error' = "KeyError"
                     /\ pc' = "except"
                     /\ did' = did \cup {"validate", "format"}
                     /\ UNCHANGED <<heap, formatted>>
                ELSE LET named == [heap EXCEPT ![current_report].name =
                                       first(new_homeworks).homework_name]
                         parsed == parse_status(first(new_homeworks))
                     IN  /\ did' = did \cup {"validate", "format", "parse_status"}
                         /\ formatted' = Append(formatted, first(new_homeworks))
                         /\ IF parsed.raises # None
                            THEN /\ heap' = named
                                 /\ error' = parsed.raises
                                 /\ pc' = "except"
                            ELSE /\ heap' = [named EXCEPT
                                       ![current_report].output = parsed.value]
                                 /\ pc' = "compare"
                                 /\ UNCHANGED error
           ELSE /\ heap' = [heap EXCEPT ![current_report].output =
                                NoHomeworkMessage(current_timestamp)]
                /\ pc' = "compare"
                /\ did' = did \cup {"validate", "format"}
                /\ UNCHANGED <<error, formatted>>
    /\ UNCHANGED <<env, now, current_timestamp, current_report, prev_report,
                   response, message, pending, request, http, cycle, sent,
                   at_start, same, slept,
                   last_empty>>

\* Lines 181, 184-185: if current_report != prev_report
Compare ==
    /\ pc = "compare"
    /\ pc' = IF Differ(heap, current_report, prev_report) THEN "send" ELSE "sleep"
    /\ did' = did \cup {"compare"}
    /\ UNCHANGED <<env, now, current_timestamp, heap, current_report,
                   prev_report, response, error, message, pending, request,
                   http, cycle, sent, at_start, same, slept,
                   formatted, last_empty>>

\* Variant of PrimaryArg that passes the committed report's output.
PrimaryArgPrev == StrArg(heap[prev_report].output)

\* The argument of the call at line 182.
PrimaryArg == StrArg(heap[current_report].output)

\* Lines 182-183: the primary notification and the commit of the report.
SendPrimary ==
    /\ pc = "send"
    /\ \E delivered \in BOOLEAN :
         LET call == send_message(PrimaryArg, delivered)
             c == copy(heap, current_report)
         IN  /\ sent' = Append(sent, [arg |-> PrimaryArg, delivered |-> delivered,
                                      by |-> "primary"])
             /\ IF call.raises # None
                THEN /\ error' = call.raises
                     /\ pc' = "except"
                     /\ UNCHANGED <<heap, prev_report>>
                ELSE /\ prev_report' = c.ref
                     /\ heap' = c.heap
                     /\ pc' = "sleep"
                     /\ UNCHANGED error
    /\ did' = did \cup {"send"}
    /\ UNCHANGED <<env, now, current_timestamp, current_report, response,
                   message, pending, request, http, cycle, at_start, same,
                   slept,
                   formatted, last_empty>>

\* Lines 186-189: the except clause up to its condition.
Except ==
    /\ pc = "except"
    /\ message' = Malfunction(error)
    /\ IF Differ(heap, current_report, prev_report)
       THEN /\ pc' = "alert"
            /\ UNCHANGED error
       ELSE /\ pc' = "sleep"
            /\ error' = None
    /\ did' = did \cup {"except"}
    /\ UNCHANGED <<env, now, current_timestamp, heap, current_report,
                   prev_report, response, pending, request, http, cycle, sent,
                   at_start, same, slept,
                   formatted, last_empty>>

\* The argument of the call at line 190.
AlertArg == DictArg(heap[current_report])

\* Variant of SendAlert without line 191: a delivered alert is not committed.
SendAlertNoCommit ==
    /\ pc = "alert"
    /\ \E delivered \in BOOLEAN :
         LET call == send_message(AlertArg, delivered)
         IN  /\ sent' = Append(sent, [arg |-> AlertArg, delivered |-> delivered,
                                      by |-> "alert"])
             /\ pending' = call.raises
    /\ pc' = "sleep"
    /\ error' = None
    /\ did' = did \cup {"alert"}
    /\ UNCHANGED <<env, now, current_timestamp, heap, current_report,
                   prev_report, response, message, request, http, cycle,
                   at_start, same, slept, formatted, last_empty>>

\* Lines 190-191: the alert of the except clause. Nothing catches an
\* exception raised here: it propagates once the finally clause has run.
SendAlert ==
    /\ pc = "alert"
    /\ \E delivered \in BOOLEAN :
         LET call == send_message(AlertArg, delivered)
             c == copy(heap, current_report)
         IN  /\ sent' = Append(sent, [arg |-> AlertArg, delivered |-> delivered,
                                      by |-> "alert"])
             /\ IF call.raises # None
                THEN /\ pending' = call.raises
                     /\ UNCHANGED <<heap, prev_report>>
                ELSE /\ prev_report' = c.ref
                     /\ heap' = c.heap
                     /\ UNCHANGED pending
    /\ pc' = "sleep"
    /\ error' = None
    /\ did' = did \cup {"alert"}
    /\ UNCHANGED <<env, now, current_timestamp, current_report, response,
                   message, request, http, cycle, at_start, same, slept,
                   formatted, last_empty>>

\* Variant of Sleep with the sleep at the end of the try body instead of the
\* finally clause: a cycle that went through the except clause does not sleep.
SleepInTry ==
    /\ pc = "sleep"
    /\ IF "except" \in did
       THEN UNCHANGED <<now, slept>>
       ELSE /\ now' = now + RETRY_TIME
            /\ slept' = slept + 1
    /\ pc' = IF pending # None THEN "raised" ELSE "fetch"
    /\ UNCHANGED <<env, current_timestamp, heap, current_report, prev_report,
                   response, error, message, pending, request, http, cycle,
                   did, sent, at_start, same,
                   formatted, last_empty>>

\* Variant of Sleep in which the exception of a failed alert is dropped and
\* the loop goes on.
SleepSwallow ==
    /\ pc = "sleep"
    /\ now' = now + RETRY_TIME
    /\ slept' = slept + 1
    /\ pc' = "fetch"
    /\ pending' = None
    /\ UNCHANGED <<env, current_timestamp, heap, current_report, prev_report,
                   response, error, message, request, http, cycle, did, sent,
                   at_start, same, formatted, last_empty>>

\* Lines 192-193: time.sleep(RETRY_TIME), then the next iteration or the
\* propagation of the pending exception out of main().
Sleep ==
    /\ pc = "sleep"
    /\ now' = now + RETRY_TIME
    /\ slept' = slept + 1
    /\ pc' = IF pending # None THEN "raised" ELSE "fetch"
    /\ UNCHANGED <<env, current_timestamp, heap, current_report, prev_report,
                   response, error, message, pending, request, http, cycle,
                   did, sent, at_start, same,
                   formatted, last_empty>>

Next ==
    \/ Start
    \/ Fetch
    \/ Advance
    \/ CheckAndFormat
    \/ Compare
    \/ SendPrimary
    \/ Except
    \/ SendAlert
    \/ Sleep

Spec == Init /\ [][Next]_vars

TypeOK ==
    /\ pc \in {"start", "exit", "fetch", "advance", "check", "compare", "send",
               "except", "alert", "sleep", "raised"}
    /\ current_report \in Refs
    /\ prev_report \in Refs
    /\ cycle \in 0..MaxCycles

(***************************************************************************)
(* Properties.                                                             *)
(***************************************************************************)
\* The HTTP layer delivered a parsed body in this cycle.
Fetched == cycle >= 1 /\ ~http.raised /\ http.status_code = HTTP_OK /\ http.json
FetchFailed == cycle >= 1 /\ ~Fetched

\* The APIResponse of the data model: both keys, a list of records that
\* have both fields and a status of the catalog.
WellFormed(r) ==
    /\ r.isdict
    /\ r.keys = ResponseKeys
    /\ r.islist
    /\ \A i \in 1..Len(r.homeworks) :
         /\ r.homeworks[i].keys = HomeworkKeys
         /\ r.homeworks[i].status \in DOMAIN HOMEWORK_STATUSES

\* check_response would reject the body of this cycle.
Malformed(r) ==
    r.isdict /\ (r.keys # ResponseKeys \/ ~r.islist)

AllDelivered == \A i \in 1..Len(sent) : sent[i].delivered

\* C1: once the credential check has passed, no exception leaves the
\* while-loop: main() never ends with an exception.
C1_NoExceptionLeavesLoop == pc # "raised"

\* C2: send_message is called, by the primary notification and by the alert
\* alike, only while the current report differs by value from the committed one.
C2_SendOnlyWhenDiffer ==
    pc \in {"send", "alert"} => heap[current_report] # heap[prev_report]

C2_Witness ==
    /\ pc = "alert"
    /\ Len(sent) = 1
    /\ ~sent[1].delivered
    /\ heap[current_report] # heap[prev_report]

\* C3: the first cycle, given a well-formed response and a working notifier,
\* makes exactly one notifier call; a cycle that receives the same response as
\* the cycle before it makes no notifier call and leaves the committed report
\* as it was.
C3_Idempotence ==
    /\ (pc = "sleep" /\ cycle = 1 /\ Fetched /\ WellFormed(http.body)
           /\ AllDelivered)
         => Len(sent) = 1
    /\ same => (sent = <<>> /\ heap[prev_report] = at_start.prev)

C3_Witness ==
    /\ pc = "sleep"
    /\ cycle = 2
    /\ same
    /\ WellFormed(response)
    /\ response.homeworks = <<>>
    /\ sent = <<>>
    /\ heap[prev_report] = heap[current_report]
    /\ heap[prev_report] # EmptyReport

\* C4: a cycle in which fetch, validation and formatting succeeded reaches the
\* sleep having called the notifier first with the new report's output string
\* if the new report differed from the committed one, and without any
\* notifier call if it did not.
C4_NotifyOnChange ==
    (pc = "sleep" /\ "compare" \in did) =>
        IF heap[current_report] # at_start.prev
        THEN /\ Len(sent) >= 1
             /\ sent[1].by = "primary"
             /\ sent[1].arg.type = "str"
             /\ sent[1].arg.value = heap[current_report].output
             /\ slept = 0
        ELSE sent = <<>>

C4_Witness ==
    /\ pc = "sleep"
    /\ "compare" \in did
    /\ cycle = 2
    /\ at_start.prev # EmptyReport
    /\ heap[current_report] # at_start.prev
    /\ Len(sent) = 1
    /\ sent[1].delivered

\* C5: a failed delivery of the alert sent from the failure branch is
\* swallowed: no exception is left propagating after it.
C5_AlertFailureSwallowed ==
    (Len(sent) >= 1 /\ sent[Len(sent)].by = "alert"
        /\ ~sent[Len(sent)].delivered)
      => pending = None

\* C6: every alert the failure branch passes to the notifier is the rendered
\* malfunction string built from the caught exception.
C6_AlertIsMalfunction ==
    \A i \in 1..Len(sent) :
        sent[i].by = "alert" =>
            /\ sent[i].arg.type = "str"
            /\ sent[i].arg.value = message

\* C7: the cursor starts as the startup time; in a cycle it holds the
\* response's current_date from the successful fetch on, whatever fails later,
\* and its value of the cycle's start if the fetch failed or the response has
\* no current_date.
C7_Cursor ==
    /\ (cycle = 0 /\ pc = "fetch") => current_timestamp = now
    /\ cycle >= 1 =>
         current_timestamp =
            IF "advance" \in did /\ "current_date" \in response.keys
            THEN response.current_date
            ELSE at_start.cursor

C7_Witness ==
    /\ pc = "sleep"
    /\ "except" \in did
    /\ "advance" \in did
    /\ "current_date" \in response.keys
    /\ current_timestamp = response.current_date
    /\ current_timestamp # at_start.cursor

\* C8: every cycle sleeps exactly once between its fetch and the next one,
\* whichever branch it took.
C8_SleepOncePerCycle ==
    /\ (pc = "fetch" /\ cycle >= 1) => slept = 1
    /\ pc = "raised" => slept = 1
    /\ pc \in {"advance", "check", "compare", "send", "except", "alert", "sleep"}
         => slept = 0

C8_Witness ==
    /\ pc = "fetch"
    /\ cycle = 2
    /\ "except" \in did
    /\ slept = 1

\* C9: the committed report changes value only in a step whose notifier call
\* was delivered, and then equals the current report; it is a distinct object
\* from the current report, so no other step alters it.
C9_CommitOnlyAfterDelivery ==
    [][/\ (heap'[prev_report'] # heap[prev_report]) =>
             /\ pc \in {"send", "alert"}
             /\ Len(sent') = Len(sent) + 1
             /\ sent'[Len(sent')].delivered
             /\ heap'[prev_report'] = heap[current_report]
             /\ heap'[current_report'] = heap[current_report]
       /\ pc' \notin {"start", "exit"} => prev_report' # current_report'
      ]_vars

C9_Witness ==
    /\ pc = "sleep"
    /\ Len(sent) = 2
    /\ ~sent[1].delivered
    /\ sent[2].delivered
    /\ heap[prev_report] = heap[current_report]
    /\ heap[prev_report] # at_start.prev

\* C10: a cycle whose fetch fails performs no validation, no formatting and
\* no notification and leaves cursor and reports as they were; a cycle whose
\* validation fails performs no formatting and no notification and leaves
\* both reports as they were; both go to the sleep.
C10_FailedCycleFrame ==
    /\ FetchFailed =>
         /\ did \subseteq {"fetch", "except"}
         /\ sent = <<>>
         /\ Snapshot = at_start
         /\ pc \in {"except", "sleep", "fetch"}
    /\ (Fetched /\ Malformed(http.body) /\ pc \notin {"advance", "check"}) =>
         /\ did \subseteq {"fetch", "advance", "validate", "except"}
         /\ sent = <<>>
         /\ heap[current_report] = at_start.current
         /\ heap[prev_report] = at_start.prev
         /\ pc \in {"except", "sleep", "fetch"}

C10_Witness ==
    /\ pc = "sleep"
    /\ cycle = 2
    /\ Fetched
    /\ Malformed(http.body)
    /\ ~response.islist
    /\ "validate" \in did
    /\ current_timestamp # at_start.cursor
    /\ at_start.prev # EmptyReport

\* The body of this cycle passes check_response.
Validated ==
    /\ Fetched
    /\ http.body.isdict
    /\ http.body.keys = ResponseKeys
    /\ http.body.islist

\* The cycle is past lines 171-180.
PastFormat == pc \notin {"start", "exit", "advance", "check"}

\* C11: of a valid response with a non-empty list only the first record is
\* used: parse_status is called once, on it, and the current report's name and
\* output are that record's name and its formatted message.
C11_OnlyFirstHomework ==
    (Validated /\ WellFormed(http.body) /\ http.body.homeworks # <<>>
        /\ PastFormat) =>
        LET hw == http.body.homeworks[1]
        IN  /\ formatted = <<hw>>
            /\ heap[current_report].name = hw.homework_name
            /\ heap[current_report].output =
                   StatusMessage(hw.homework_name, HOMEWORK_STATUSES[hw.status])
            /\ \A i \in 1..Len(sent) :
                   sent[i].by = "primary" =>
                       sent[i].arg.value =
                           StatusMessage(hw.homework_name,
                                         HOMEWORK_STATUSES[hw.status])

C11_Witness ==
    /\ pc = "sleep"
    /\ Validated
    /\ Len(http.body.homeworks) = 2
    /\ http.body.homeworks[1] # http.body.homeworks[2]
    /\ WellFormed(http.body)
    /\ formatted = <<http.body.homeworks[1]>>
    /\ heap[current_report].name = "hw1"
    /\ Len(sent) = 1

\* C12: for a valid response with an empty list parse_status is not called,
\* the current report's output is the no-homework message of the cursor as
\* this response advanced it, and the report's name is what it was before
\* the cycle.
C12_EmptyList ==
    (Validated /\ http.body.homeworks = <<>> /\ PastFormat) =>
        /\ formatted = <<>>
        /\ "parse_status" \notin did
        /\ current_timestamp = http.body.current_date
        /\ heap[current_report].output =
               NoHomeworkMessage(http.body.current_date)
        /\ heap[current_report].name = at_start.current.name

C12_Witness ==
    /\ pc = "sleep"
    /\ Validated
    /\ http.body.homeworks = <<>>
    /\ at_start.current.name = "hw1"
    /\ at_start.cursor # http.body.current_date
    /\ heap[current_report].name = "hw1"
    /\ heap[current_report].output = NoHomeworkMessage(1000)
    /\ Len(sent) = 1

\* C13: check_response applied to a mapping that lacks the homeworks key or
\* the current_date key fails with EmptyAPIResponseError, an error kind other
\* than the one raised for a homeworks value that is not a list.
C13_MissingKeyError ==
    /\ (pc = "except" /\ did = {"fetch", "advance", "validate"}
           /\ response.keys # ResponseKeys)
         => error = "EmptyAPIResponseError"
    /\ (pc = "except" /\ did = {"fetch", "advance", "validate"}
           /\ response.keys = ResponseKeys)
         => error # "EmptyAPIResponseError"

\* C14: get_api_answer raises ConnectionError when the HTTP request itself
\* fails and WrongAPIResponseCodeError when the status is not 200; only a 200
\* response yields a payload.
C14_FetchErrors ==
    /\ (pc = "except" /\ did = {"fetch"} /\ http.raised)
         => error = "ConnectionError"
    /\ (pc = "except" /\ did = {"fetch"} /\ ~http.raised
           /\ http.status_code # HTTP_OK)
         => error = "WrongAPIResponseCodeError"
    /\ (pc = "advance" /\ cycle >= 1)
         => (~http.raised /\ http.status_code = HTTP_OK /\ response = http.body)

\* C15: a record without homework_name makes formatting fail with a
\* missing-field error and the cycle sends no primary notification;
\* parse_status of a record with a name and a status outside the catalog fails
\* with the unknown-status error and yields no message; with a status of the
\* catalog it yields the template message of the record's name and verdict.
C15_FormatErrors ==
    /\ (Validated /\ http.body.homeworks # <<>> /\ PastFormat
           /\ "homework_name" \notin http.body.homeworks[1].keys) =>
         /\ pc = "except" => error = "KeyError"
         /\ pc # "except" => message = Malfunction("KeyError")
         /\ \A i \in 1..Len(sent) : sent[i].by # "primary"
         /\ "compare" \notin did
    /\ (Validated /\ http.body.homeworks # <<>> /\ PastFormat
           /\ http.body.homeworks[1].keys = HomeworkKeys
           /\ http.body.homeworks[1].status \notin DOMAIN HOMEWORK_STATUSES) =>
         /\ pc = "except" => error = "ValueError"
         /\ heap[current_report].output = at_start.current.output
         /\ "compare" \notin did
    /\ \A h \in Homework :
         h.keys = HomeworkKeys =>
            IF h.status \in DOMAIN HOMEWORK_STATUSES
            THEN /\ parse_status(h).raises = None
                 /\ parse_status(h).value =
                        StatusMessage(h.homework_name, HOMEWORK_STATUSES[h.status])
            ELSE parse_status(h).raises = "ValueError"

C15_Witness ==
    /\ pc = "sleep"
    /\ cycle = 2
    /\ Validated
    /\ http.body.homeworks # <<>>
    /\ "homework_name" \notin http.body.homeworks[1].keys
    /\ message = Malfunction("KeyError")
    /\ sent = <<>>
    /\ at_start.prev # EmptyReport

\* C16: with one of the three credentials absent main() exits before the
\* loop, without any fetch or notifier call; with all three present the loop
\* is entered. Absent is unset or empty, as line 143 tests the two tokens.
C16_TokenGate ==
    LET missing == \E v \in {PRACTICUM_TOKEN, TELEGRAM_TOKEN, TELEGRAM_CHAT_ID} :
                       ~Truthy(v)
    IN  /\ missing => (pc \in {"start", "exit"} /\ cycle = 0 /\ sent = <<>>)
        /\ (~missing /\ pc # "start") => pc # "exit"

\* C17: the from_date of every request is the cursor the cycle began with,
\* for every value of the cursor, 0 included.
C17_FromDateIsCursor == cycle >= 1 => request = at_start.cursor

\* C18: whenever the loop is about to fetch, the current report equals the
\* committed one; a cycle that ends with the two different ends the loop.
C18_EqualAtFetch ==
    /\ pc = "fetch" => heap[current_report] = heap[prev_report]
    /\ (pc = "sleep" /\ heap[current_report] # heap[prev_report])
         => pending # None

C18_Witness ==
    /\ pc = "fetch"
    /\ cycle = 2
    /\ "alert" \in did
    /\ heap[current_report] = heap[prev_report]
    /\ heap[current_report] # at_start.prev

\* C19: in a cycle whose fetch fails or whose response does not pass
\* validation the alert condition is false and the notifier is never called.
C19_FailureOnlyLogged ==
    ((FetchFailed \/ (Fetched /\ ~Validated)) /\ PastFormat) =>
        /\ heap[current_report] = heap[prev_report]
        /\ pc # "alert"
        /\ "alert" \notin did
        /\ "send" \notin did
        /\ Len(sent) = 0

C19_Witness ==
    /\ pc = "sleep"
    /\ cycle = 2
    /\ FetchFailed
    /\ "except" \in did
    /\ message = Malfunction("RequestException")
    /\ heap[prev_report] # EmptyReport
    /\ Len(sent) = 0

\* C20: when a cycle that got through with an empty list is followed by a
\* cycle with an empty list and another current_date, the second cycle calls
\* the notifier too, with the no-homework message of the new cursor.
C20_EmptyListRepeats ==
    (pc = "sleep" /\ last_empty # -1 /\ Validated /\ http.body.homeworks = <<>>
        /\ http.body.current_date # last_empty) =>
        /\ Len(sent) >= 1
        /\ sent[1].by = "primary"
        /\ sent[1].arg = StrArg(NoHomeworkMessage(http.body.current_date))

C20_Witness ==
    /\ pc = "sleep"
    /\ last_empty = 0
    /\ Validated
    /\ http.body.homeworks = <<>>
    /\ http.body.current_date = 1000
    /\ Len(sent) = 1
    /\ sent[1].delivered
    /\ at_start.prev.output = NoHomeworkMessage(0)
====
